---- MODULE Spec2Model ----
(***************************************************************************)
(* Model of the FGRM front end: the hero carousel (CreativeSlides,         *)
(* src/src/components/Slides.tsx), the two variants of the authentication  *)
(* card (AuthCard, src/unnamed/part_001 and part_002) and the two variants *)
(* of the navigation bar (ProfessionalNavbar, src/unnamed/part_003).       *)
(*                                                                         *)
(* Every event handler runs to completion on the single UI thread, so each *)
(* handler is one action.  Strings are sequences of one-character strings. *)
(***************************************************************************)
EXTENDS Integers, Sequences, FiniteSets, TLC

VARIABLES
  \* ---- CreativeSlides ----
  totalSlides,    \* slides.length
  currentSlide,   \* useState(0)
  mounted,        \* whether the CreativeSlides instance is mounted
  intervals,      \* number of armed setInterval timers of the instance
  elapsed,        \* time quanta since the interval was armed or last fired
  hist,           \* history: the latest navigation operations, oldest first
  moved,          \* history: (advances - retreats) mod totalSlides since the mount
  raced,          \* history: the latest navigation was a click batched with a tick
  \* ---- AuthCard ----
  variant,        \* 1: part_001 (LoginSchema/SignupSchema), 2: part_002 (AuthSchema)
  isLogin,        \* useState(true)
  submitting,     \* useState(false)
  success,        \* useState(false)
  values,         \* react-hook-form field values
  errors,         \* formState.errors: the fields that carry an error message
  isValid,        \* formState.isValid
  t800,           \* pending 800 ms submission timeouts
  t2000,          \* pending 2000 ms success timeouts
  last,           \* history: the latest AuthCard operation, what it started from
                  \* and the records it wrote to the console
  authMounted,    \* whether the AuthCard instance is mounted
  darkMode,       \* AuthCard: useState(false), set by checkTheme
  observing,      \* AuthCard: the MutationObserver is connected
  records,        \* the observer's mutation records not yet delivered
  \* ---- document, local storage and ProfessionalNavbar ----
  docDark,        \* document.documentElement has the class "dark"
  docTransition,  \* document.documentElement has the class "theme-transition"
  stored,         \* localStorage "theme" ("null" when the key is absent)
  navVariant,     \* 1: part_003 lines 33-64, 2: part_003 lines 297-343
  theme,          \* useState("light"): theme / currentTheme
  isAnimating,    \* variant 2: useState(false)
  isOpen,         \* useState(false): isOpen / isMobileMenuOpen
  location,       \* useLocation(): the path of the current route
  menuWas,        \* history: whether the menu was open at the latest navigation
  t300,           \* variant 2: pending 300 ms timeouts
  toggled         \* history: a theme toggle has taken effect

carouselVars == <<totalSlides, currentSlide, mounted, intervals, elapsed, hist,
                  moved, raced>>
authVars == <<variant, isLogin, submitting, success, values, errors, isValid,
              t800, t2000, last, authMounted>>
pageVars == <<darkMode, observing, records, docDark, docTransition,
              stored, navVariant, theme, isAnimating, isOpen, location,
              menuWas, t300, toggled>>
vars == <<carouselVars, authVars, pageVars>>

(***************************************************************************)
(* Bounds                                                                  *)
(***************************************************************************)
\* the largest slide list explored (the program's list has 4 slides)
MaxSlides == 4
\* the most success timeouts that may be pending at once
MaxPending == 2
MaxRecords == 3      \* mutation records an observer holds before delivery
\* the time quanta that make up one SLIDE_DURATION
Quanta == 2

\* the navigation history keeps enough operations for a full cycle
HistLen == MaxSlides

(***************************************************************************)
(* CreativeSlides                                                          *)
(***************************************************************************)
SLIDE_DURATION == 6500

\* slides.length of the program's slide list
NumSlides == 4

\* JavaScript's % : the remainder takes the sign of the dividend
JsMod(a, n) == IF a >= 0 THEN a % n ELSE 0 - ((0 - a) % n)

nextSlide_NoWrap(prev) == prev + 1

\* setCurrentSlide((prev) => (prev + 1) % totalSlides)
nextSlide(prev) == JsMod(prev + 1, totalSlides)

prevSlide_NoBias(prev) == JsMod(prev - 1, totalSlides)

prevSlide_Clamp(prev) == IF prev = 0 THEN 0 ELSE prev - 1

\* setCurrentSlide((prev) => (prev - 1 + totalSlides) % totalSlides)
prevSlide(prev) == JsMod(prev - 1 + totalSlides, totalSlides)

RenderThrows_Tolerant(index) == FALSE

\* slides[index] is undefined, so reading its title throws while rendering
RenderThrows(index) == index < 0 \/ index >= totalSlides

EffectReRuns_NotMemoized == TRUE

\* useCallback(..., [totalSlides]) keeps nextSlide, the effect's only
\* dependency, the same function across renders: the effect never re-runs
EffectReRuns == FALSE

\* the interval's phase after a render that shows index: an effect that re-runs
\* clears the interval and arms a new one
PhaseAfterRender(index) ==
  IF EffectReRuns /\ index # currentSlide THEN 0 ELSE elapsed

RecordAt(h0, op, from) ==
  LET h == Append(h0, [op |-> op, from |-> from])
  IN  IF Len(h) > HistLen THEN Tail(h) ELSE h

Record(op) == RecordAt(hist, op, currentSlide)

\* the net displacement after one more event: +1 for an advance, -1 for a retreat
Delta(op) == IF op = "next" THEN 1 ELSE 0 - 1
Moved(d) == (moved + d + 2 * totalSlides) % totalSlides

\* one updater function applied to the index it is given
Updater(op, index) == IF op = "next" THEN nextSlide(index) ELSE prevSlide(index)

ApplyBoth_FromRendered(first, second, index) == Updater(second, index)

\* two setCurrentSlide((prev) => ...) calls queued before one render: React
\* gives each updater function the result of the one queued before it
ApplyBoth(first, second, index) == Updater(second, Updater(first, index))

Cleanup_Missing(n) == n

\* setInterval arms one timer, the effect's cleanup clears it
Arm(n) == n + 1
Cleanup(n) == n - 1

\* the effects of a mount: under React.StrictMode (development build) the
\* effect is run, cleaned up and run again
MountEffects(strict, n) == IF strict THEN Arm(Cleanup(Arm(n))) ELSE Arm(n)

\* the first render of an instance over n slides: useState(0), then the effect
\* arms the interval; a render that throws commits nothing, so no effect runs
Construct(n) ==
  /\ totalSlides = n
  /\ currentSlide = 0
  /\ mounted = ~RenderThrows(0)
  /\ \E strict \in BOOLEAN :
       intervals = (IF RenderThrows(0) THEN 0 ELSE MountEffects(strict, 0))
  /\ elapsed = 0
  /\ hist = <<>>
  /\ moved = 0
  /\ raced = FALSE

InitCarousel == \E n \in 1..MaxSlides : Construct(n)

\* time passes while the interval is armed
Elapse ==
  /\ intervals > 0
  /\ elapsed < Quanta
  /\ elapsed' = elapsed + 1
  /\ UNCHANGED <<totalSlides, currentSlide, mounted, intervals, hist, moved,
                 raced>>
  /\ UNCHANGED <<authVars, pageVars>>

\* the setInterval callback, one SLIDE_DURATION after the interval was armed
\* or last fired: nextSlide(); an update of an unmounted instance is dropped
Tick ==
  /\ intervals > 0
  /\ elapsed = Quanta
  /\ elapsed' = 0
  /\ IF mounted
     THEN /\ currentSlide' = nextSlide(currentSlide)
          /\ hist' = Record("next")
          /\ moved' = Moved(Delta("next"))
          /\ raced' = FALSE
     ELSE UNCHANGED <<currentSlide, hist, moved, raced>>
  /\ UNCHANGED <<totalSlides, mounted, intervals>>
  /\ UNCHANGED <<authVars, pageVars>>

\* a click handled before the render of a tick's update, or a tick fired
\* before the render of a click's: both updaters are applied by one render
TickWithClick ==
  /\ mounted
  /\ intervals > 0
  /\ elapsed = Quanta
  /\ elapsed' = 0
  /\ \E op \in {"next", "prev"} : \E tickFirst \in BOOLEAN :
       LET first == IF tickFirst THEN "next" ELSE op
           second == IF tickFirst THEN op ELSE "next"
       IN  /\ currentSlide' = ApplyBoth(first, second, currentSlide)
           /\ hist' = RecordAt(Record(first), second,
                               Updater(first, currentSlide))
           /\ moved' = Moved(Delta(first) + Delta(second))
  /\ raced' = TRUE
  /\ UNCHANGED <<totalSlides, mounted, intervals>>
  /\ UNCHANGED <<authVars, pageVars>>

\* the next button: onClick={nextSlide}
ClickNext ==
  /\ mounted
  /\ currentSlide' = nextSlide(currentSlide)
  /\ elapsed' = PhaseAfterRender(currentSlide')
  /\ hist' = Record("next")
  /\ moved' = Moved(Delta("next"))
  /\ raced' = FALSE
  /\ UNCHANGED <<totalSlides, mounted, intervals>>
  /\ UNCHANGED <<authVars, pageVars>>

\* the previous button: onClick={prevSlide}
ClickPrev ==
  /\ mounted
  /\ currentSlide' = prevSlide(currentSlide)
  /\ elapsed' = PhaseAfterRender(currentSlide')
  /\ hist' = Record("prev")
  /\ moved' = Moved(Delta("prev"))
  /\ raced' = FALSE
  /\ UNCHANGED <<totalSlides, mounted, intervals>>
  /\ UNCHANGED <<authVars, pageVars>>

UnmountSlides_NoClear ==
  /\ mounted
  /\ mounted' = FALSE
  /\ hist' = <<>>
  /\ raced' = FALSE
  /\ UNCHANGED <<totalSlides, currentSlide, intervals, elapsed, moved>>
  /\ UNCHANGED <<authVars, pageVars>>

\* the effect's cleanup: clearInterval(interval)
UnmountSlides ==
  /\ mounted
  /\ mounted' = FALSE
  /\ intervals' = Cleanup(intervals)
  /\ elapsed' = 0
  /\ hist' = <<>>
  /\ raced' = FALSE
  /\ UNCHANGED <<totalSlides, currentSlide, moved>>
  /\ UNCHANGED <<authVars, pageVars>>

\* a fresh instance: useState(0) and the effect's setInterval, unless the
\* first render throws
MountSlides ==
  /\ ~mounted
  /\ ~RenderThrows(0)
  /\ mounted' = TRUE
  /\ currentSlide' = 0
  /\ \E strict \in BOOLEAN : intervals' = MountEffects(strict, intervals)
  /\ elapsed' = 0
  /\ hist' = <<>>
  /\ moved' = 0
  /\ raced' = FALSE
  /\ UNCHANGED totalSlides
  /\ UNCHANGED <<authVars, pageVars>>

NextCarousel ==
  \/ Elapse \/ Tick \/ TickWithClick \/ ClickNext \/ ClickPrev
  \/ UnmountSlides \/ MountSlides

(***************************************************************************)
(* Strings and the zod checks                                              *)
(***************************************************************************)
Empty == <<>>
EmailGood == <<"a", "@", "b", ".", "c", "o", "m">>
EmailNoTld == <<"a", "@", "b">>
Pw5 == <<"a", "b", "c", "d", "e">>
Pw7 == Pw5 \o <<"f", "g">>
Pw8 == Pw7 \o <<"h">>
Pw8x == Pw7 \o <<"x">>
NameAl == <<"a", "l">>
Phone5 == <<"0", "1", "2", "3", "4">>
Phone10 == Phone5 \o <<"5", "6", "7", "8", "9">>

Letter == {"a", "b", "c", "d", "e", "f", "g", "h", "i", "j", "k", "l", "m",
           "n", "o", "p", "q", "r", "s", "t", "u", "v", "w", "x", "y", "z"}
Digit == {"0", "1", "2", "3", "4", "5", "6", "7", "8", "9"}
Alnum == Letter \cup Digit

\* the domain part: ([A-Z0-9][A-Z0-9\-]*\.)+[A-Z]{2,}
IsDomain(d) ==
  LET dots == {i \in 1..Len(d) : d[i] = "."}
  IN  /\ dots # {}
      /\ LET lastDot == CHOOSE i \in dots : \A j \in dots : j <= i
         IN  /\ Len(d) - lastDot >= 2
             /\ \A i \in (lastDot + 1)..Len(d) : d[i] \in Letter
             /\ d[1] \in Alnum
             /\ \A i \in 1..lastDot : d[i] \in Alnum \cup {"-", "."}
             /\ \A i \in dots : i < lastDot => d[i + 1] \in Alnum

\* z.string().email(): zod's e-mail pattern
\* ^(?!\.)(?!.*\.\.)([A-Z0-9_'+\-\.]*)[A-Z0-9_+-]@([A-Z0-9][A-Z0-9\-]*\.)+[A-Z]{2,}$
IsEmail(s) ==
  /\ Len(s) > 0
  /\ s[1] # "."
  /\ \A i \in 1..(Len(s) - 1) : ~(s[i] = "." /\ s[i + 1] = ".")
  /\ \E at \in 1..Len(s) :
       /\ s[at] = "@"
       /\ at > 1
       /\ \A i \in 1..(at - 1) : s[i] \in Alnum \cup {"_", "'", "+", "-", "."}
       /\ s[at - 1] \in Alnum \cup {"_", "+", "-"}
       /\ IsDomain(SubSeq(s, at + 1, Len(s)))

\* z.string().min(n)
TooShort(s, n) == Len(s) < n

\* the issues of one field: {f} when the check fails
Issue(f, failed) == IF failed THEN {f} ELSE {}

(***************************************************************************)
(* AuthCard: schemas                                                       *)
(***************************************************************************)
Fields1 == {"email", "password", "firstName", "lastName", "phoneNumber",
            "confirmPassword"}
Fields2 == {"name", "email", "password", "confirmPassword"}
FieldsOf(v) == IF v = 1 THEN Fields1 ELSE Fields2

LoginSchema_Min5(d) ==
  Issue("email", ~IsEmail(d["email"]))
    \cup Issue("password", TooShort(d["password"], 5))

\* part_001: LoginSchema; the object schema ignores the other keys
LoginSchema(d) ==
  Issue("email", ~IsEmail(d["email"]))
    \cup Issue("password", TooShort(d["password"], 8))

\* part_001: SignupSchema with its refine on confirmPassword
SignupSchema(d) ==
  Issue("email", ~IsEmail(d["email"]))
    \cup Issue("phoneNumber", TooShort(d["phoneNumber"], 10))
    \cup Issue("firstName", TooShort(d["firstName"], 1))
    \cup Issue("lastName", TooShort(d["lastName"], 1))
    \cup Issue("password", TooShort(d["password"], 8))
    \cup Issue("confirmPassword", ~(d["password"] = d["confirmPassword"]))

getSchema_AlwaysLogin(login, d) == LoginSchema(d)

\* part_001: getSchema(isLogin)
getSchema(login, d) == IF login THEN LoginSchema(d) ELSE SignupSchema(d)

\* part_002: AuthSchema; the form always holds a string for name, so
\* optional() never sees undefined and min(1) is applied to ""
AuthSchema(d) ==
  Issue("name", TooShort(d["name"], 1))
    \cup Issue("email", ~IsEmail(d["email"]))
    \cup Issue("password", TooShort(d["password"], 6))
    \cup Issue("confirmPassword",
               ~(\/ d["confirmPassword"] = Empty
                 \/ d["password"] = d["confirmPassword"]
                 \/ d["password"] = Empty))

\* zodResolver(...): the fields the schema reports an issue for
Resolver(v, login, d) == IF v = 1 THEN getSchema(login, d) ELSE AuthSchema(d)

\* useForm defaultValues, and the argument of reset
DefaultValues(v) == [f \in FieldsOf(v) |-> Empty]

\* the inputs rendered, and so registered, in a mode
Rendered(v, login) == IF login THEN {"email", "password"} ELSE FieldsOf(v)

\* what a user may type into a field
Samples(f) ==
  CASE f = "email" -> {Empty, EmailGood, EmailNoTld}
    [] f = "password" -> {Empty, Pw5, Pw7, Pw8}
    [] f = "confirmPassword" -> {Empty, Pw8, Pw8x}
    [] f = "phoneNumber" -> {Empty, Phone5, Phone10}
    [] OTHER -> {Empty, NameAl}

AllEmpty(d) == \A f \in DOMAIN d : d[f] = Empty

(***************************************************************************)
(* AuthCard: state and handlers                                            *)
(***************************************************************************)
\* the button label: submitting ? ... : success ? ... : ...
Status ==
  IF submitting THEN "Submitting" ELSE IF success THEN "Success" ELSE "Idle"

SubmitDisabled_ValidOnly == ~isValid

\* disabled={!isValid || submitting}
SubmitDisabled == ~isValid \/ submitting

Dirty == ~AllEmpty(values) \/ errors # {}

\* the history records the operations whose effect is examined afterwards
NoOp == [op |-> "none", dirty |-> FALSE, log |-> <<>>]

InitAuth ==
  /\ variant \in {1, 2}
  /\ isLogin = TRUE
  /\ submitting = FALSE
  /\ success = FALSE
  /\ values = DefaultValues(variant)
  /\ errors = {}
  /\ isValid = (Resolver(variant, TRUE, DefaultValues(variant)) = {})
  /\ t800 = <<>>
  /\ t2000 = 0
  /\ last = NoOp
  /\ authMounted = TRUE

\* reset(d): the values become d, the errors are cleared and isValid is
\* recomputed by the resolver of the mode rendered next
Reset(d, login) ==
  /\ values' = d
  /\ errors' = {}
  /\ isValid' = (Resolver(variant, login, d) = {})

\* an input's onChange under mode "onChange": the resolver validates all
\* the values, the error of the changed field alone is updated
Change(f, v) ==
  /\ authMounted
  /\ f \in Rendered(variant, isLogin)
  /\ v \in Samples(f)
  /\ v # values[f]
  /\ values' = [values EXCEPT ![f] = v]
  /\ LET errs == Resolver(variant, isLogin, values')
     IN  /\ errors' = IF f \in errs THEN errors \cup {f} ELSE errors \ {f}
         /\ isValid' = (errs = {})
  /\ last' = NoOp
  /\ UNCHANGED <<variant, isLogin, submitting, success, t800, t2000, authMounted>>
  /\ UNCHANGED <<carouselVars, pageVars>>

\* part_001 writes the submitted data to the console in onSubmit itself
LogAtSubmit(v, data) == IF v = 1 THEN <<data>> ELSE <<>>

LogAtTimeout_Emptied(v, data) ==
  IF v = 2 THEN <<[f \in DOMAIN data |-> Empty]>> ELSE <<>>

\* part_002 writes it in the 800 ms callback, after reset: data is the
\* argument that onSubmit was called with
LogAtTimeout(v, data) == IF v = 2 THEN <<data>> ELSE <<>>

onSubmit_KeepSuccess(data) ==
  /\ submitting' = TRUE
  /\ success' = success
  /\ t800' = Append(t800, [data |-> data, login |-> isLogin])

\* onSubmit(data): the flags are set and the 800 ms timeout is scheduled
onSubmit(data) ==
  /\ submitting' = TRUE
  /\ success' = FALSE
  /\ t800' = Append(t800, [data |-> data, login |-> isLogin])

\* the submit control: handleSubmit(onSubmit) validates, then calls onSubmit
Submit ==
  /\ authMounted
  /\ ~SubmitDisabled
  /\ Len(t800) + t2000 < MaxPending
  /\ LET errs == Resolver(variant, isLogin, values)
     IN  IF errs = {}
         THEN /\ errors' = {}
              /\ onSubmit(values)
              /\ last' = [op |-> "submit", dirty |-> FALSE,
                          log |-> LogAtSubmit(variant, values)]
         ELSE /\ errors' = errs
              /\ UNCHANGED <<submitting, success, t800>>
              /\ last' = [op |-> "submit", dirty |-> FALSE, log |-> <<>>]
  /\ UNCHANGED <<variant, isLogin, values, isValid, t2000, authMounted>>
  /\ UNCHANGED <<carouselVars, pageVars>>

Timeout800_NoSuccess ==
  /\ Len(t800) > 0
  /\ t800' = Tail(t800)
  /\ submitting' = FALSE
  /\ success' = FALSE
  /\ Reset(DefaultValues(variant), isLogin)
  /\ t2000' = t2000
  /\ last' = [op |-> "timeout800", dirty |-> Dirty,
              log |-> LogAtTimeout(variant, Head(t800).data)]
  /\ UNCHANGED <<variant, isLogin, authMounted>>
  /\ UNCHANGED <<carouselVars, pageVars>>

Timeout800_NoReset ==
  /\ Len(t800) > 0
  /\ t800' = Tail(t800)
  /\ submitting' = FALSE
  /\ success' = TRUE
  /\ t2000' = t2000 + 1
  /\ last' = [op |-> "timeout800", dirty |-> Dirty,
              log |-> LogAtTimeout(variant, Head(t800).data)]
  /\ UNCHANGED <<variant, isLogin, values, errors, isValid, authMounted>>
  /\ UNCHANGED <<carouselVars, pageVars>>

Timeout800_ToLogin ==
  /\ Len(t800) > 0
  /\ t800' = Tail(t800)
  /\ IF authMounted
     THEN submitting' = FALSE /\ success' = TRUE
     ELSE UNCHANGED <<submitting, success>>
  /\ isLogin' = TRUE
  /\ Reset(DefaultValues(variant), TRUE)
  /\ t2000' = t2000 + 1
  /\ last' = [op |-> "timeout800", dirty |-> Dirty,
              log |-> LogAtTimeout(variant, Head(t800).data)]
  /\ UNCHANGED <<variant, authMounted>>
  /\ UNCHANGED <<carouselVars, pageVars>>

\* the 800 ms callback of onSubmit; nothing cancels it, and the state updates
\* of an unmounted instance are dropped while reset and setTimeout still run
Timeout800 ==
  /\ Len(t800) > 0
  /\ t800' = Tail(t800)
  /\ IF authMounted
     THEN submitting' = FALSE /\ success' = TRUE
     ELSE UNCHANGED <<submitting, success>>
  /\ Reset(DefaultValues(variant), isLogin)
  /\ t2000' = t2000 + 1
  /\ last' = [op |-> "timeout800", dirty |-> Dirty,
              log |-> LogAtTimeout(variant, Head(t800).data)]
  /\ UNCHANGED <<variant, isLogin, authMounted>>
  /\ UNCHANGED <<carouselVars, pageVars>>

\* the 2000 ms callback: setSuccess(false)
Timeout2000 ==
  /\ t2000 > 0
  /\ t2000' = t2000 - 1
  /\ IF authMounted THEN success' = FALSE ELSE UNCHANGED success
  /\ last' = NoOp
  /\ UNCHANGED <<variant, isLogin, submitting, values, errors, isValid, t800,
                 authMounted>>
  /\ UNCHANGED <<carouselVars, pageVars>>

toggleAuthMode_NoReset ==
  /\ authMounted
  /\ isLogin' = ~isLogin
  /\ isValid' = (Resolver(variant, ~isLogin, values) = {})
  /\ last' = [op |-> "toggle", dirty |-> Dirty, log |-> <<>>]
  /\ UNCHANGED <<variant, submitting, success, values, errors, t800, t2000,
                 authMounted>>
  /\ UNCHANGED <<carouselVars, pageVars>>

\* toggleAuthMode: setIsLogin(!isLogin); reset(...)
toggleAuthMode ==
  /\ authMounted
  /\ isLogin' = ~isLogin
  /\ Reset(DefaultValues(variant), ~isLogin)
  /\ last' = [op |-> "toggle", dirty |-> Dirty, log |-> <<>>]
  /\ UNCHANGED <<variant, submitting, success, t800, t2000, authMounted>>
  /\ UNCHANGED <<carouselVars, pageVars>>

ChangeAny ==
  \E f \in Fields1 \cup Fields2 : \E v \in Samples(f) : Change(f, v)

NextAuth == ChangeAny \/ Submit \/ Timeout800 \/ Timeout2000 \/ toggleAuthMode


(***************************************************************************)
(* Document theme: ProfessionalNavbar writes it, AuthCard observes it      *)
(***************************************************************************)
\* the theme-initialisation effect: storedTheme || system preference
InitialTheme(st, prefersDark) ==
  IF st # "null" THEN st ELSE IF prefersDark THEN "dark" ELSE "light"

\* the navbar's mount effect, then AuthCard's: checkTheme() and observe()
InitPage(nv, st, prefersDark) ==
  /\ navVariant = nv
  /\ stored = st
  /\ theme = InitialTheme(st, prefersDark)
  /\ docDark = (InitialTheme(st, prefersDark) = "dark")
  /\ docTransition = FALSE
  /\ isAnimating = FALSE
  /\ isOpen = FALSE
  /\ location = "/home"
  /\ menuWas = FALSE
  /\ t300 = 0
  /\ toggled = FALSE
  /\ darkMode = docDark
  /\ observing = TRUE
  /\ records = 0

\* k changes of the root's class attribute queue k records at a connected observer
QueueRecords(k) ==
  IF observing
  THEN records + k <= MaxRecords /\ records' = records + k
  ELSE UNCHANGED records

\* classList.add("theme-transition") and classList.toggle("dark", ...) each
\* change the attribute; the first navbar only toggles "dark"
ToggleWrites == IF navVariant = 2 THEN 2 ELSE 1

toggleTheme_NoStore ==
  /\ navVariant = 2 => ~isAnimating
  /\ LET newTheme == IF theme = "dark" THEN "light" ELSE "dark"
     IN  /\ theme' = newTheme
         /\ docDark' = (newTheme = "dark")
         /\ stored' = stored
  /\ IF navVariant = 2
     THEN isAnimating' = TRUE /\ docTransition' = TRUE /\ t300' = t300 + 1
     ELSE UNCHANGED <<isAnimating, docTransition, t300>>
  /\ QueueRecords(ToggleWrites)
  /\ toggled' = TRUE
  /\ UNCHANGED <<navVariant, location, menuWas, isOpen, darkMode, observing>>
  /\ UNCHANGED <<carouselVars, authVars>>

\* toggleTheme of both navbars; the second returns at once while isAnimating
\* (and its buttons are disabled), adds "theme-transition" and arms 300 ms
toggleTheme ==
  /\ navVariant = 2 => ~isAnimating
  /\ LET newTheme == IF theme = "dark" THEN "light" ELSE "dark"
     IN  /\ theme' = newTheme
         /\ docDark' = (newTheme = "dark")
         /\ stored' = newTheme
  /\ IF navVariant = 2
     THEN isAnimating' = TRUE /\ docTransition' = TRUE /\ t300' = t300 + 1
     ELSE UNCHANGED <<isAnimating, docTransition, t300>>
  /\ QueueRecords(ToggleWrites)
  /\ toggled' = TRUE
  /\ UNCHANGED <<navVariant, location, menuWas, isOpen, darkMode, observing>>
  /\ UNCHANGED <<carouselVars, authVars>>

AnimationEnd_KeepFlag ==
  /\ t300 > 0
  /\ t300' = t300 - 1
  /\ docTransition' = FALSE
  /\ isAnimating' = isAnimating
  /\ QueueRecords(1)
  /\ UNCHANGED <<navVariant, location, menuWas, theme, stored, docDark, toggled, isOpen,
                 darkMode, observing>>
  /\ UNCHANGED <<carouselVars, authVars>>

\* the 300 ms callback: classList.remove("theme-transition"); setIsAnimating(false)
AnimationEnd ==
  /\ t300 > 0
  /\ t300' = t300 - 1
  /\ docTransition' = FALSE
  /\ isAnimating' = FALSE
  /\ QueueRecords(1)
  /\ UNCHANGED <<navVariant, location, menuWas, theme, stored, docDark, toggled, isOpen, darkMode,
                 observing>>
  /\ UNCHANGED <<carouselVars, authVars>>

ObserverCallback_NoCheck ==
  /\ observing
  /\ records > 0
  /\ records' = 0
  /\ UNCHANGED <<darkMode, observing, docDark, docTransition, stored, navVariant, location, menuWas,
                 theme, isAnimating, isOpen, t300, toggled>>
  /\ UNCHANGED <<carouselVars, authVars>>

\* the MutationObserver callback: checkTheme() for every "class" record
ObserverCallback ==
  /\ observing
  /\ records > 0
  /\ records' = 0
  /\ darkMode' = IF authMounted THEN docDark ELSE darkMode
  /\ UNCHANGED <<observing, docDark, docTransition, stored, navVariant, location, menuWas, theme,
                 isAnimating, isOpen, t300, toggled>>
  /\ UNCHANGED <<carouselVars, authVars>>

UnmountAuth_NoDisconnect ==
  /\ authMounted
  /\ authMounted' = FALSE
  /\ last' = NoOp
  /\ UNCHANGED <<variant, isLogin, submitting, success, values, errors, isValid,
                 t800, t2000>>
  /\ UNCHANGED <<carouselVars, pageVars>>

\* AuthCard unmounts: the effect's cleanup is observer.disconnect(), which
\* also empties the record queue; the submission timeouts are left pending
UnmountAuth ==
  /\ authMounted
  /\ authMounted' = FALSE
  /\ observing' = FALSE
  /\ records' = 0
  /\ last' = NoOp
  /\ UNCHANGED <<variant, isLogin, submitting, success, values, errors, isValid,
                 t800, t2000>>
  /\ UNCHANGED <<darkMode, docDark, docTransition, stored, navVariant, location, menuWas, theme,
                 isAnimating, isOpen, t300, toggled>>
  /\ UNCHANGED carouselVars

\* the route renders a new AuthCard: fresh state and form, then the theme
\* effect runs checkTheme() and observes; modelled once the instance before
\* it has no timeout left
MountAuth ==
  /\ ~authMounted
  /\ t800 = <<>> /\ t2000 = 0
  /\ authMounted' = TRUE
  /\ isLogin' = TRUE
  /\ submitting' = FALSE
  /\ success' = FALSE
  /\ Reset(DefaultValues(variant), TRUE)
  /\ last' = NoOp
  /\ darkMode' = docDark
  /\ observing' = TRUE
  /\ records' = 0
  /\ UNCHANGED <<variant, t800, t2000>>
  /\ UNCHANGED <<docDark, docTransition, stored, navVariant, location, menuWas, theme,
                 isAnimating, isOpen, t300, toggled>>
  /\ UNCHANGED carouselVars

\* the mobile menu button: setIsOpen(!isOpen)
ToggleMenu ==
  /\ isOpen' = ~isOpen
  /\ UNCHANGED <<darkMode, observing, records, docDark, docTransition, stored,
                 navVariant, location, menuWas, theme, isAnimating, t300, toggled>>
  /\ UNCHANGED <<carouselVars, authVars>>

\* some of the paths the router serves
Routes == {"/home", "/about", "/login"}

Navigate_KeepMenu(to) ==
  /\ to \in Routes
  /\ location' = to
  /\ menuWas' = isOpen
  /\ UNCHANGED <<darkMode, observing, records, docDark, docTransition, stored,
                 navVariant, theme, isAnimating, isOpen, t300, toggled>>
  /\ UNCHANGED <<carouselVars, authVars>>

\* a navigation, also one to the current path, gives useLocation() a new
\* location object: the effect on [location] closes the mobile menu
Navigate(to) ==
  /\ to \in Routes
  /\ location' = to
  /\ isOpen' = FALSE
  /\ menuWas' = isOpen
  /\ UNCHANGED <<darkMode, observing, records, docDark, docTransition, stored,
                 navVariant, theme, isAnimating, t300, toggled>>
  /\ UNCHANGED <<carouselVars, authVars>>

NavigateAny == \E to \in Routes : Navigate(to)

NextNavbar == toggleTheme \/ AnimationEnd \/ ToggleMenu \/ NavigateAny

NextTheme == NextNavbar \/ ObserverCallback \/ UnmountAuth \/ MountAuth

\* the page as loaded with no stored theme and a light system preference
InitPageIdle == InitPage(1, "null", FALSE)

(***************************************************************************)
(* Specifications                                                          *)
(***************************************************************************)
\* what localStorage may hold under "theme" when the page loads: nothing, a
\* theme written earlier, or a string some other code left there
StoredSamples == {"null", "light", "dark", "sepia"}

InitAnyPage ==
  \E nv \in {1, 2} : \E st \in StoredSamples :
    \E prefersDark \in BOOLEAN : InitPage(nv, st, prefersDark)

Init == InitCarousel /\ InitAuth /\ InitAnyPage

Next == NextCarousel \/ NextAuth \/ NextTheme

Spec == Init /\ [][Next]_vars

\* the carousel alone, next to an idle AuthCard
InitSlides == InitCarousel /\ InitAuth /\ variant = 1 /\ InitPageIdle

SpecSlides == InitSlides /\ [][NextCarousel]_vars

\* the carousel over any slide list, the empty one included
InitSlidesAny ==
  /\ \E n \in 0..MaxSlides : Construct(n)
  /\ InitAuth /\ variant = 1 /\ InitPageIdle

SpecSlidesAny == InitSlidesAny /\ [][NextCarousel]_vars

\* the AuthCard alone, next to the program's four slides
InitForm == InitAuth /\ Construct(NumSlides) /\ InitPageIdle

SpecAuth == InitForm /\ [][NextAuth]_vars

\* the AuthCard over its lifetime: the form's handlers and the unmount
SpecAuthLife == InitForm /\ [][NextAuth \/ UnmountAuth]_vars

\* the timeouts of a page that stays open do fire
SpecAuthLifeFair == SpecAuthLife /\ WF_vars(Timeout800) /\ WF_vars(Timeout2000)

\* typing that leaves a field empty or fills it with a value that passes
PlainSamples == {Empty, EmailGood, Pw8, NameAl, Phone10}

ChangePlain ==
  \E f \in Rendered(variant, isLogin) :
    \E v \in Samples(f) \cap PlainSamples : Change(f, v)

\* the AuthCard on a page whose navbar toggles the theme: the form's handlers
\* with the plain inputs, the theme toggle and the observer's callback
SpecAuthPage ==
  InitForm /\ [][\/ ChangePlain \/ Submit \/ Timeout800 \/ Timeout2000
                \/ toggleAuthMode \/ toggleTheme \/ ObserverCallback]_vars

\* the theme: the navbar's toggle, the AuthCard's observer and its unmount
InitTheme == InitAuth /\ Construct(NumSlides) /\ InitAnyPage

SpecTheme == InitTheme /\ [][NextTheme]_vars

\* the 300 ms timeout of a page that stays open does fire, and the records
\* of a connected observer are delivered
SpecThemeFair ==
  SpecTheme /\ WF_vars(AnimationEnd) /\ WF_vars(ObserverCallback)

(***************************************************************************)
(* Properties of CreativeSlides (checked under SpecSlides)                 *)
(***************************************************************************)
\* the latest k recorded operations are all advances
AllNext(k) == \A j \in (Len(hist) - k + 1)..Len(hist) : hist[j].op = "next"

\* the index the carousel had before the latest k recorded operations
IndexBefore(k) == hist[Len(hist) - k + 1].from

\* C1: in every state reached by ticks, next clicks and previous clicks,
\* currentSlide is an integer with 0 <= currentSlide < totalSlides, so the slide
\* read at currentSlide is defined.
C1_IndexInRange ==
  /\ currentSlide \in Int
  /\ 0 <= currentSlide
  /\ currentSlide < totalSlides

\* C1 witness: a retreat from index 0 of the four slides has wrapped to 3.
C1_Witness ==
  /\ totalSlides = NumSlides
  /\ Len(hist) > 0
  /\ hist[Len(hist)] = [op |-> "prev", from |-> 0]
  /\ currentSlide = NumSlides - 1

\* C2: an advance sets currentSlide to (currentSlide + 1) mod N, and N advances
\* in a row, with nothing in between, return the carousel to the index the run
\* started from, for every N >= 1 and every starting index.
C2_AdvanceCycle ==
  \A k \in 1..Len(hist) :
    AllNext(k) =>
      /\ currentSlide = (IndexBefore(k) + k) % totalSlides
      /\ (k = totalSlides => currentSlide = IndexBefore(k))

\* C2 witness: four advances in a row over the four slides, started at index 2,
\* are back at index 2.
C2_Witness ==
  /\ totalSlides = NumSlides
  /\ Len(hist) = NumSlides
  /\ AllNext(NumSlides)
  /\ IndexBefore(NumSlides) = 2
  /\ currentSlide = 2

\* C3: a retreat followed by an advance, and an advance followed by a retreat,
\* leave currentSlide where it was, also across the wrap at 0 and N - 1.
C3_RetreatAdvanceInverse ==
  Len(hist) >= 2 =>
    (hist[Len(hist) - 1].op # hist[Len(hist)].op
       => currentSlide = IndexBefore(2))

\* C3 witness: from index 0, retreat (to 3), advance from 3 (to 0) and retreat
\* from 0 again: both orders have crossed the wrap.
C3_Witness ==
  /\ totalSlides = NumSlides
  /\ Len(hist) >= 3
  /\ hist[Len(hist) - 2] = [op |-> "prev", from |-> 0]
  /\ hist[Len(hist) - 1] = [op |-> "next", from |-> NumSlides - 1]
  /\ hist[Len(hist)] = [op |-> "prev", from |-> 0]
  /\ currentSlide = NumSlides - 1

(***************************************************************************)
(* Properties of AuthCard (checked under SpecAuth)                         *)
(***************************************************************************)
\* the issues of the schema that belongs to the current mode
ModeIssues ==
  IF variant = 1
  THEN IF isLogin THEN LoginSchema(values) ELSE SignupSchema(values)
  ELSE AuthSchema(values)

\* onSubmit has just run: the status has just become Submitting
JustSubmitted == last.op = "submit" /\ submitting

\* C4: the status becomes Submitting only in a state where the validator
\* reports no error for any field required by the current mode.
C4_SubmitOnlyWhenValid ==
  JustSubmitted => \A f \in Rendered(variant, isLogin) : f \notin ModeIssues

\* C4 witness: a sign-up form of part_001 has just been accepted.
C4_Witness ==
  /\ JustSubmitted
  /\ variant = 1
  /\ ~isLogin
  /\ values["confirmPassword"] = Pw8

\* C5: the submit control is disabled exactly when the validity flag is false
\* or the status is Submitting.
C5_SubmitDisabledRule ==
  SubmitDisabled <=> (~isValid \/ Status = "Submitting")

\* C5 witness: a valid form that is being submitted has its control disabled.
C5_Witness == isValid /\ Status = "Submitting" /\ SubmitDisabled

\* C6: Success is entered only from Submitting, and Submitting is left only for
\* Success, so a submission passes Idle, Submitting, Success, Idle in this order.
C6_StatusOrder ==
  [][/\ (Status' = "Success" /\ Status # "Success") => Status = "Submitting"
     /\ (Status = "Submitting" /\ Status' # "Submitting") => Status' = "Success"
     /\ (Status = "Idle" /\ Status' # "Idle") => Status' = "Submitting"
     /\ (Status' = "Idle" /\ Status # "Idle") => Status = "Success"]_vars

\* C6 witness: the 800 ms callback has just moved the status to Success.
C6_Witness == last.op = "timeout800" /\ Status = "Success"

\* C7 as stated: when a sign-up form is accepted, every field is empty in the
\* first state whose status is Submitting.
C7_EmptyOnSubmitting == (JustSubmitted /\ ~isLogin) => AllEmpty(values)

\* C7 amended: on entering Submitting the fields still hold the submitted
\* values; every field is empty on entering Success, where the 800 ms callback
\* resets the form.
C7_EmptyOnSuccess ==
  /\ JustSubmitted => values = t800[Len(t800)].data /\ ~AllEmpty(values)
  /\ last.op = "timeout800" => Status = "Success" /\ AllEmpty(values)

\* C7 witness: the 800 ms callback has just emptied a populated sign-up form.
C7_Witness ==
  /\ last.op = "timeout800"
  /\ last.dirty
  /\ ~isLogin
  /\ AllEmpty(values)

\* C8: toggling the mode leaves every field empty and the error set empty.
C8_ToggleClears ==
  last.op = "toggle" => AllEmpty(values) /\ errors = {}

\* C8 witness: the mode has just been toggled away from a sign-up form that had
\* populated fields or errors.
C8_Witness == last.op = "toggle" /\ last.dirty /\ isLogin

\* C9: in sign-in mode with e-mail "a@b.com" and a password of length 8 the
\* validity flag is true and the error set is empty.
C9_SignInValid ==
  (isLogin /\ values["email"] = EmailGood /\ Len(values["password"]) = 8)
    => (isValid /\ errors = {})

\* C10: in sign-in mode a password of length 5 carries a validation error and
\* the submit control is disabled.
C10_ShortPassword ==
  (isLogin /\ Len(values["password"]) = 5)
    => ("password" \in errors /\ SubmitDisabled)

\* C10 witness: a sign-in form of part_001 whose only failing field is the
\* password of length 5.
C10_Witness ==
  /\ isLogin
  /\ variant = 1
  /\ values["email"] = EmailGood
  /\ values["password"] = Pw5
  /\ errors = {"password"}

\* C11: in sign-up mode, whenever password and confirmPassword differ, the
\* validator reports an issue for confirmPassword, and it reports one for
\* password only when the password itself is too short.
C11_MismatchOnConfirm ==
  (~isLogin /\ values["password"] # values["confirmPassword"])
    => /\ "confirmPassword" \in ModeIssues
       /\ "password" \in ModeIssues
            => TooShort(values["password"], IF variant = 1 THEN 8 ELSE 6)

\* C12: a sign-up submission is accepted only in a state where confirmPassword
\* equals password, the empty confirmPassword included.
C12_AcceptedOnlyWhenEqual ==
  (JustSubmitted /\ ~isLogin) => values["confirmPassword"] = values["password"]

(***************************************************************************)
(* CreativeSlides over its lifetime (SpecSlides, SpecSlidesAny)            *)
(***************************************************************************)
\* C13: an unmounted carousel has no interval armed, and no step taken while
\* it stays unmounted changes its index.
C13_UnmountCancelsTimer ==
  [][~mounted => /\ intervals = 0
                 /\ ~mounted' => currentSlide' = currentSlide]_vars

\* C13 witness: an instance that had advanced to index 2 is unmounted and no
\* interval is left.
C13_Witness == ~mounted /\ intervals = 0 /\ currentSlide = 2

\* C14: a click on the next or the previous control changes the index alone:
\* the interval stays armed, is not replaced, and its phase (the time until the
\* next tick) is what it was before the click.
C14_ClickKeepsTimer ==
  [][(ClickNext \/ ClickPrev)
       => /\ intervals' = intervals
          /\ elapsed' = elapsed
          /\ UNCHANGED <<totalSlides, mounted>>]_vars

\* C14 witness: the previous control was clicked at index 0 and the interval,
\* armed before the click, has run its whole period and is about to fire.
C14_Witness ==
  /\ mounted
  /\ totalSlides = NumSlides
  /\ hist = <<[op |-> "prev", from |-> 0]>>
  /\ currentSlide = NumSlides - 1
  /\ intervals = 1
  /\ elapsed = Quanta

\* C15: over an empty slide list the construction fails: nothing is mounted,
\* no interval is armed and no advance or retreat is ever computed.
C15_EmptyListFailsFast ==
  totalSlides = 0
    => (~mounted /\ intervals = 0 /\ hist = <<>> /\ currentSlide = 0)

\* C15 witness: the carousel constructed over an empty list is not mounted.
C15_Witness == totalSlides = 0 /\ RenderThrows(0) /\ ~mounted

(***************************************************************************)
(* AuthCard over its lifetime (SpecAuthLife, SpecAuthLifeFair)             *)
(***************************************************************************)
\* C16: once the AuthCard is unmounted, a timeout callback that fires is a
\* no-op: it changes neither the flags nor the form, and schedules nothing.
C16_NoOpAfterUnmount ==
  [][~authMounted => /\ UNCHANGED <<submitting, success>>
                     /\ UNCHANGED <<values, errors, isValid>>
                     /\ t2000' <= t2000]_vars

\* C20: a mounted form that is Submitting has its 800 ms timeout pending
\* whatever the user does meanwhile, and reaches Success unless it is
\* unmounted first.
C20_SubmittingLeadsToSuccess ==
  /\ [](authMounted /\ submitting => Len(t800) = 1)
  /\ (authMounted /\ submitting) ~> (Status = "Success" \/ ~authMounted)

\* C20 witness: Success was entered from a form that was clean when the
\* callback ran, that is, after the user had toggled the mode while Submitting.
C20_Witness ==
  /\ authMounted
  /\ last.op = "timeout800"
  /\ ~last.dirty
  /\ Status = "Success"

(***************************************************************************)
(* Document theme (SpecTheme)                                              *)
(***************************************************************************)
\* C17: a mounted AuthCard observes the document root, and whenever no class
\* change is waiting to be delivered, right after mount included, darkMode
\* tells whether the root carries the class "dark".
C17_DarkModeMirrorsRoot ==
  authMounted => /\ observing
                 /\ records = 0 => darkMode = docDark

\* C17 witness: the second navbar toggled the theme to dark, its animation
\* ended, and every record was delivered to the mounted AuthCard.
C17_Witness ==
  /\ authMounted
  /\ navVariant = 2
  /\ toggled
  /\ t300 = 0
  /\ records = 0
  /\ docDark
  /\ darkMode

\* C18: an unmounted AuthCard has no observer connected and no record
\* waiting, and no step taken while it stays unmounted changes its darkMode.
C18_UnmountDisconnects ==
  [][~authMounted => /\ ~observing
                     /\ records = 0
                     /\ ~authMounted' => darkMode' = darkMode]_vars

\* C18 witness: the theme was toggled after the unmount and the flag of the
\* unmounted instance kept its old value.
C18_Witness ==
  /\ ~authMounted
  /\ ~observing
  /\ toggled
  /\ docDark
  /\ ~darkMode

\* C19: once a toggle has taken effect, the stored string is the navbar's
\* theme, it is "light" or "dark", and the root carries "dark" exactly when the
\* theme is "dark".
C19_ThemePersisted ==
  toggled => /\ stored = theme
             /\ theme \in {"light", "dark"}
             /\ docDark <=> theme = "dark"

\* C19 witness: the theme has been toggled to dark: "dark" is stored, is the
\* navbar's theme and is on the root.
C19_Witness ==
  /\ toggled
  /\ stored = "dark"
  /\ theme = "dark"
  /\ docDark

(***************************************************************************)
(* AuthCard: submissions and their timeouts                                *)
(***************************************************************************)
\* C21: the fields are empty when Success is entered, and Success is left for
\* Idle only by the 2000 ms timeout of the submission that entered it, which is
\* then the only such timeout pending (timeouts of one delay fire in the order
\* they were scheduled).
C21_SuccessEndsByOwnTimer ==
  [][/\ (Status # "Success" /\ Status' = "Success") => AllEmpty(values')
     /\ (Status = "Success" /\ Status' = "Idle") => t2000 = 1]_vars

\* C22: the mode is flipped by every toggleAuthMode and is left unchanged by
\* every other step: field edits, submissions, the two timeouts, theme toggles
\* and the observer's callback.
C22_ModeOnlyByToggle ==
  [][/\ toggleAuthMode => isLogin' = ~isLogin
     /\ ~toggleAuthMode => isLogin' = isLogin]_vars

\* C22 witness: a sign-up form was submitted and reached Success while the
\* theme was toggled and the observer's callback ran; the mode is still sign-up.
C22_Witness ==
  /\ ~isLogin
  /\ last.op = "timeout800"
  /\ Status = "Success"
  /\ toggled
  /\ records = 0
  /\ darkMode

\* C23: a step writes a record to the console exactly when it accepts a
\* submission (part_001) or runs the 800 ms callback of one (part_002), it
\* writes one record, and the record holds the values the form held when the
\* submission was accepted, which are kept with the pending timeout and are
\* not the emptied values.
C23_ReportsSubmittedValues ==
  [][LET accepted == Len(t800') > Len(t800)
         called == Len(t800') < Len(t800)
     IN  /\ accepted => /\ t800'[Len(t800')].data = values
                        /\ ~AllEmpty(values)
         /\ variant = 1 => last'.log = IF accepted THEN <<values>> ELSE <<>>
         /\ variant = 2 => last'.log = IF called THEN <<Head(t800).data>>
                                                 ELSE <<>>]_vars

\* C23 witness: the callback of part_002 has reset the form and then written
\* the values that were submitted.
C23_Witness ==
  /\ variant = 2
  /\ last.op = "timeout800"
  /\ AllEmpty(values)
  /\ Len(last.log) = 1
  /\ last.log[1]["password"] = Pw8

\* C24: in every state the error set holds only fields whose current value
\* fails the schema of the current mode.
C24_ErrorsAreCurrent == errors \subseteq ModeIssues

(***************************************************************************)
(* CreativeSlides: interleaved updates and the interval (SpecSlides)       *)
(***************************************************************************)
\* C25: after any interleaving of advances (ticks, next clicks) and retreats
\* since the mount at index 0, the index is (advances - retreats) mod N; a click
\* batched with a tick counts as two events.
C25_NoLostUpdate == mounted => currentSlide = moved

\* C25 witness: from index 0 a next click was batched with a tick and the
\* index is 2.
C25_Witness ==
  /\ mounted
  /\ totalSlides = NumSlides
  /\ raced
  /\ hist = <<[op |-> "next", from |-> 0], [op |-> "next", from |-> 1]>>
  /\ currentSlide = 2

\* C26: a mounted carousel has exactly one interval armed and an unmounted one
\* has none, whatever the mounts (strict mode's mount, cleanup, mount included),
\* index changes, unmounts and remounts before.
C26_OneInterval == intervals = (IF mounted THEN 1 ELSE 0)

\* C26 witness: a mounted instance over one slide has one interval armed, and
\* that interval has just advanced it once.
C26_Witness ==
  /\ mounted
  /\ intervals = 1
  /\ hist = <<[op |-> "next", from |-> 0]>>
  /\ ~raced
  /\ elapsed = 0
  /\ totalSlides = 1

(***************************************************************************)
(* AuthCard: one submission at a time (SpecAuth)                           *)
(***************************************************************************)
\* C27: at most one 800 ms timeout is pending, and one is pending exactly
\* while the status is Submitting: no onSubmit starts during a submission.
C27_OneSubmissionInFlight ==
  /\ Len(t800) <= 1
  /\ submitting <=> Len(t800) = 1

\* C27 witness: a field was edited during a submission and the form is valid
\* again, yet the one pending timeout is that of the submission under way.
C27_Witness ==
  /\ submitting
  /\ isValid
  /\ last.op = "none"
  /\ ~AllEmpty(values)
  /\ Len(t800) = 1

\* C28: submitting and success are never both true.
C28_NotBothFlags == ~(submitting /\ success)

\* C28 witness: a submission was accepted while the Success of the one before
\* was showing and its 2000 ms timeout was pending: success is false again.
C28_Witness ==
  /\ JustSubmitted
  /\ t2000 = 1
  /\ ~success

(***************************************************************************)
(* ProfessionalNavbar: the mobile menu and the animated toggle             *)
(***************************************************************************)
\* C29: every navigation leaves the mobile menu closed, whatever it was; any
\* other step that changes the flag is the menu button's, which flips it.
C29_MenuClosedOnNavigation ==
  [][/\ NavigateAny => ~isOpen'
     /\ ToggleMenu => isOpen' = ~isOpen
     /\ (isOpen' # isOpen) => (NavigateAny \/ ToggleMenu)]_vars

\* C29 witness: the menu was opened on the home page and a navigation to the
\* login page has closed it.
C29_Witness == location = "/login" /\ menuWas /\ ~isOpen

\* C30: in the second navbar no step changes the theme, the root's dark class
\* or the stored preference while isAnimating is true; an accepted toggle sets
\* isAnimating and arms the one 300 ms timeout, whose callback clears the flag
\* and the root's theme-transition class.
C30_AnimatedToggle ==
  /\ [][(navVariant = 2 /\ isAnimating)
          => UNCHANGED <<theme, docDark, stored>>]_vars
  /\ [][(navVariant = 2 /\ theme' # theme) => isAnimating']_vars
  /\ [](isAnimating <=> t300 = 1)
  /\ [](isAnimating <=> docTransition)
  /\ isAnimating ~> (~isAnimating /\ ~docTransition)

\* C30 witness: an accepted toggle of the second navbar has ended its
\* animation and the next toggle is not blocked.
C30_Witness ==
  /\ navVariant = 2
  /\ toggled
  /\ ~isAnimating
  /\ ~docTransition
  /\ t300 = 0
  /\ ENABLED toggleTheme

====
